---- MODULE Spec2Model ----
(***************************************************************************)
(* LX OSS Finder: the result-assembly pipeline of backend/app/main.py      *)
(* (POST /search and GET /search/stream), the response cache, the intent   *)
(* parser, the recommendation parser and the scoring engine.               *)
(*                                                                         *)
(* Strings are TLA+ strings; Python's str.lower, `" " in kw` and the other *)
(* character-level tests are tables over the vocabulary of the model. A    *)
(* Chinese word of the source is written zh_<pinyin>.                      *)
(* Scores are integers in thousandths (0.931 is 931).                      *)
(***************************************************************************)
EXTENDS Integers, Sequences, FiniteSets, TLC

VARIABLES
    store,      \* InMemoryCache.store: key -> (expires_at, value), or NoEntry
    now,        \* the wall clock read by time.time()
    rq,         \* one record per request slot: the locals of search / search_stream
    lastSet,    \* history: per key, the last cache.set (time, value, writer)
    op          \* the component-level call last made on the cache (SpecCache)

vars == <<store, now, rq, lastSet, op>>

-----------------------------------------------------------------------------
(* Bounds of the model *)

MaxTime == 3        \* the clock stops advancing here
MaxRepos == 2       \* longest list a keyword search returns
MaxRecs == 2        \* longest array the recommendation model returns
MaxLimit == 3       \* largest `limit` a caller asks for

Slots == {"r1", "r2"}

-----------------------------------------------------------------------------
(* Python built-ins used by the code *)

\* an optional value is a sequence: None is <<>>, a present value v is <<v>>
None == <<>>
Some(v) == <<v>>

Min(a, b) == IF a <= b THEN a ELSE b
Max(a, b) == IF a >= b THEN a ELSE b

\* s[:n] for a list s: a negative n counts from the end
Slice(s, n) ==
    IF n >= 0 THEN SubSeq(s, 1, Min(n, Len(s)))
    ELSE SubSeq(s, 1, Max(Len(s) + n, 0))

Range(s) == {s[i] : i \in 1..Len(s)}

\* all sequences over S of length at most n
SeqsUpTo(S, n) == UNION {[1..k -> S] : k \in 0..n}

\* str.lower() on the vocabulary
Lower(s) ==
    CASE s = "OCR" -> "ocr"
      [] s = "X" -> "x"
      [] s = "OCR fast" -> "ocr fast"
      [] OTHER -> s

\* text.split() after the separators (the two commas and the particle "de") became blanks
QueryWords(text) ==
    CASE text = "" -> <<>>
      [] text = "OCR fast" -> <<"OCR", "fast">>
      [] text = "ocr fast" -> <<"ocr", "fast">>
      [] text = "zh_kuai zh_xin" -> <<"zh_kuai", "zh_xin">>
      [] text = "go crawler" -> <<"go", "crawler">>
      [] OTHER -> <<text>>

\* `sub in text`: in the vocabulary a substring is always a whole word
InText(sub, text) == \E i \in 1..Len(QueryWords(text)) : QueryWords(text)[i] = sub

\* `" " in kw`
HasSpace(s) ==
    s \in {"optical character recognition", "foo bar", "OCR fast", "ocr fast",
           "zh_kuai zh_xin", "go crawler", "a demo app"}

\* s.encode("ascii") succeeds
IsAscii(s) == s \notin {"zh_kuai", "zh_xin", "zh_kuai zh_xin"}

-----------------------------------------------------------------------------
(* services/cache.py *)

CacheTTL == 2       \* settings.cache_ttl_seconds, in clock ticks

\* `if not entry` / `if cached`: None is the only falsy value that occurs
Truthy(v) == v # None

EmptyStore(keys) == [k \in keys |-> None]

\* a variant that expires an entry at its deadline
ExpiredAtDeadline(t, expires_at) == t >= expires_at

\* the expiry test of InMemoryCache.get
Expired(t, expires_at) == t > expires_at

\* the store after get's lazy eviction
StoreAfterGet(st, key, t) ==
    IF Truthy(st[key]) /\ Expired(t, st[key][1].expires_at)
    THEN [st EXCEPT ![key] = None]
    ELSE st

\* InMemoryCache.get(key) at time t: the value returned, or None
CacheGet(st, key, t) ==
    IF ~Truthy(st[key]) THEN None
    ELSE IF Expired(t, st[key][1].expires_at) THEN None
    ELSE Some(st[key][1].value)

\* a variant that keeps the entry already there
CacheSetKeepFirst(st, key, value, t) ==
    IF Truthy(st[key]) THEN st
    ELSE [st EXCEPT ![key] = Some([expires_at |-> t + CacheTTL, value |-> value])]

\* InMemoryCache.set(key, value) at time t: the new store
CacheSet(st, key, value, t) ==
    [st EXCEPT ![key] = Some([expires_at |-> t + CacheTTL, value |-> value])]

-----------------------------------------------------------------------------
(* main.py: select_keywords, build_search_query *)

RECURSIVE DedupFrom(_, _)
DedupFrom(seq, seen) ==
    IF seq = <<>> THEN <<>>
    ELSE IF Lower(Head(seq)) \in seen THEN DedupFrom(Tail(seq), seen)
    ELSE <<Head(seq)>> \o DedupFrom(Tail(seq), seen \cup {Lower(Head(seq))})

\* first occurrence of every keyword, compared ignoring case
DedupKeep(seq) == DedupFrom(seq, {})

\* a variant that truncates without removing the repeated keywords
select_keywordsKeepRepeats(keywords, max_keywords) ==
    IF max_keywords > 0 THEN Slice(keywords, max_keywords) ELSE keywords

select_keywords(keywords, max_keywords) ==
    IF max_keywords > 0 THEN Slice(DedupKeep(keywords), max_keywords)
    ELSE DedupKeep(keywords)

RECURSIVE Join(_, _)
Join(sep, seq) ==
    IF seq = <<>> THEN ""
    ELSE IF Len(seq) = 1 THEN seq[1]
    ELSE seq[1] \o sep \o Join(sep, Tail(seq))

Map(seq, f(_)) == [i \in 1..Len(seq) |-> f(seq[i])]

DayLen == 4         \* clock ticks per day
Today(t) == t \div DayLen

QueryTerm(kw) == IF HasSpace(kw) THEN "\"" \o kw \o "\"" ELSE kw

Scopes(o) ==
    (IF o.include_name THEN <<"name">> ELSE <<>>)
    \o (IF o.include_description THEN <<"description">> ELSE <<>>)
    \o (IF o.include_readme THEN <<"readme">> ELSE <<>>)

TopicCandidate(kw) == ~HasSpace(kw) /\ IsAscii(kw)
TopicTerm(kw) == "topic:" \o Lower(kw)
LanguageTerm(lang) == "language:" \o lang

\* a variant that appends the filters before the topic qualifiers
QueryPartsFiltersEarly(keywords, languages, filters, o, t) ==
    Map(keywords, QueryTerm)
    \o (IF Scopes(o) # <<>> THEN <<"in:" \o Join(",", Scopes(o))>> ELSE <<>>)
    \o Map(languages, LanguageTerm)
    \o (IF o.pushed_within_days > 0
        THEN <<"pushed:>" \o ToString(Today(t) - o.pushed_within_days)>> ELSE <<>>)
    \o (IF o.min_stars > 0 THEN <<"stars:>=" \o ToString(o.min_stars)>> ELSE <<>>)
    \o filters
    \o (IF o.include_topics
        THEN Map(Slice(DedupKeep(SelectSeq(keywords, TopicCandidate)), 3), TopicTerm)
        ELSE <<>>)

\* the list that build_search_query joins with " "
QueryParts(keywords, languages, filters, o, t) ==
    Map(keywords, QueryTerm)
    \o (IF Scopes(o) # <<>> THEN <<"in:" \o Join(",", Scopes(o))>> ELSE <<>>)
    \o Map(languages, LanguageTerm)
    \o (IF o.pushed_within_days > 0
        THEN <<"pushed:>" \o ToString(Today(t) - o.pushed_within_days)>> ELSE <<>>)
    \o (IF o.min_stars > 0 THEN <<"stars:>=" \o ToString(o.min_stars)>> ELSE <<>>)
    \o (IF o.include_topics
        THEN Map(Slice(DedupKeep(SelectSeq(keywords, TopicCandidate)), 3), TopicTerm)
        ELSE <<>>)
    \o filters

build_search_query(keywords, languages, filters, o, t) ==
    Join(" ", QueryParts(keywords, languages, filters, o, t))

-----------------------------------------------------------------------------
(* services/intent_parser.py *)

COMMON_LANGS ==
    {"python", "java", "javascript", "typescript", "go", "rust", "php", "c++",
     "c#", "swift", "kotlin", "dart"}

\* CHINESE_HINTS, in insertion order
CHINESE_HINTS ==
    << <<"zh_douyin", <<"douyin", "tiktok">> >>,
       <<"zh_pachong", <<"crawler", "scraper">> >>,
       <<"zh_danmu", <<"danmu", "barrage", "bullet screen">> >>,
       <<"zh_zhibo", <<"live streaming", "live stream">> >>,
       <<"zh_duanshipin", <<"short video">> >>,
       <<"zh_shipin", <<"video">> >>,
       <<"zh_xiazai", <<"download">> >>,
       <<"zh_pinglun", <<"comment">> >>,
       <<"zh_zhanghao", <<"account">> >>,
       <<"zh_denglu", <<"login", "auth">> >>,
       <<"ocr", <<"ocr", "optical character recognition">> >> >>

REQUIREMENT_WORDS ==
    {"zh_kuai", "zh_sudukuai", "zh_kuaisu", "zh_gaoxiao", "zh_gaoxiaoneng", "zh_gaoxingneng", "performance", "fast", "quick",
     "speed", "zh_hao", "zh_haoyong", "zh_jiandan", "zh_rongyi", "easy", "simple", "good", "zh_xin", "zh_zuixin",
     "zh_zuixinban", "new", "latest", "zh_wending", "zh_kekao", "stable", "reliable", "zh_mianfei", "zh_kaiyuan",
     "free", "open source", "zh_qingliang", "zh_qingliangji", "lightweight", "light", "zh_qiangda",
     "powerful", "strong", "zh_wanzheng", "complete", "full", "zh_zhuanye", "professional", "pro"}

\* REQUIREMENT_TO_TECH, in insertion order
REQUIREMENT_TO_TECH ==
    << <<"zh_kuai", <<"fast", "performance", "optimized", "speed", "efficient">> >>,
       <<"zh_sudukuai", <<"fast", "performance", "optimized", "speed", "efficient">> >>,
       <<"zh_kuaisu", <<"fast", "performance", "optimized", "speed">> >>,
       <<"zh_gaoxiao", <<"efficient", "performance", "optimized">> >>,
       <<"zh_gaoxingneng", <<"performance", "high-performance", "optimized">> >>,
       <<"zh_haoyong", <<"easy", "simple", "user-friendly">> >>,
       <<"zh_jiandan", <<"simple", "easy", "minimal">> >>,
       <<"zh_xin", <<"latest", "modern", "recent">> >>,
       <<"zh_zuixin", <<"latest", "recent", "up-to-date">> >>,
       <<"zh_wending", <<"stable", "reliable">> >>,
       <<"zh_kekao", <<"reliable", "stable">> >>,
       <<"zh_mianfei", <<"free", "open-source">> >>,
       <<"zh_kaiyuan", <<"open-source", "open source">> >>,
       <<"zh_qingliang", <<"lightweight", "light">> >>,
       <<"zh_qingliangji", <<"lightweight", "light">> >>,
       <<"zh_qiangda", <<"powerful", "feature-rich">> >>,
       <<"zh_wanzheng", <<"complete", "full-featured">> >>,
       <<"zh_zhuanye", <<"professional", "enterprise">> >> >>

HasKey(table, k) == \E i \in 1..Len(table) : table[i][1] = k
Lookup(table, k) == table[CHOOSE i \in 1..Len(table) : table[i][1] = k][2]

RECURSIVE Flatten(_)
Flatten(seqs) == IF seqs = <<>> THEN <<>> ELSE Head(seqs) \o Flatten(Tail(seqs))

\* lines 87-100: a requirement word is replaced by its technical keywords (or
\* dropped when it has none), any other word is kept
WordKeywords(kw) ==
    IF kw \in REQUIREMENT_WORDS \/ Lower(kw) \in REQUIREMENT_WORDS
    THEN IF HasKey(REQUIREMENT_TO_TECH, kw) THEN Lookup(REQUIREMENT_TO_TECH, kw)
         ELSE IF HasKey(REQUIREMENT_TO_TECH, Lower(kw))
              THEN Lookup(REQUIREMENT_TO_TECH, Lower(kw))
              ELSE <<>>
    ELSE <<kw>>

\* lines 103-110: the expansions of every table key found in the text
HintKeywords(table, user_query) ==
    Flatten([i \in 1..Len(table) |->
        IF InText(table[i][1], user_query) \/ InText(Lower(table[i][1]), Lower(user_query))
        THEN table[i][2] ELSE <<>>])

NotRequirement(w) == w \notin REQUIREMENT_WORDS

\* lines 113-122: the query without its requirement words, or the raw query
CleanedQuery(user_query) ==
    IF SelectSeq(QueryWords(user_query), NotRequirement) # <<>>
    THEN Join(" ", SelectSeq(QueryWords(user_query), NotRequirement))
    ELSE Join(" ", QueryWords(user_query))

RawKeywords(user_query) ==
    Flatten(Map(QueryWords(user_query), WordKeywords))
    \o HintKeywords(CHINESE_HINTS, user_query)
    \o HintKeywords(REQUIREMENT_TO_TECH, user_query)

\* the languages named in the query (one at most in the vocabulary, so the
\* iteration order of the Python set does not show)
QueryLangs(user_query) ==
    IF \E l \in COMMON_LANGS : InText(l, Lower(user_query))
    THEN <<CHOOSE l \in COMMON_LANGS : InText(l, Lower(user_query))>>
    ELSE <<>>

KeywordCap == 6

heuristic_parse(user_query) ==
    [keywords |->
        Slice(DedupKeep(IF RawKeywords(user_query) # <<>> THEN RawKeywords(user_query)
                        ELSE <<CleanedQuery(user_query)>>), KeywordCap),
     languages |-> QueryLangs(user_query),
     filters |-> <<>>]

NotIn(seq, x) == \A i \in 1..Len(seq) : seq[i] # x

RECURSIVE MergeLangs(_, _)
MergeLangs(langs, extra) ==
    IF extra = <<>> THEN langs
    ELSE MergeLangs(IF NotIn(langs, Head(extra)) THEN Append(langs, Head(extra)) ELSE langs,
                    Tail(extra))

MinLLMKeywords == 3

\* a variant without the try/except of lines 167-189: a failed chat call raises
IntentParseUncaught(user_query, chat) ==
    [raised |-> chat.kind = "unavailable", intent |-> heuristic_parse(user_query)]

\* IntentParser.parse: chat is what self.llm.chat did. "unavailable": no client,
\* or the call raised; "malformed": the text is no ParsedIntent JSON; "ok": data.
\* The result is [raised, intent]; parse catches every exception.
IntentParse(user_query, chat) ==
    IF chat.kind # "ok"
    THEN [raised |-> FALSE, intent |-> heuristic_parse(user_query)]
    ELSE IF Len(chat.data.keywords) < MinLLMKeywords
    THEN [raised |-> FALSE,
          intent |-> [keywords |->
                        Slice(DedupKeep(chat.data.keywords
                                        \o heuristic_parse(user_query).keywords), KeywordCap),
                      languages |->
                        MergeLangs(chat.data.languages, heuristic_parse(user_query).languages),
                      filters |-> chat.data.filters]]
    ELSE [raised |-> FALSE, intent |-> chat.data]

-----------------------------------------------------------------------------
(* services/scoring.py: scores in thousandths *)

\* repo.get(key, default)
Get(repo, key, default) == IF key \in DOMAIN repo THEN repo[key] ELSE default

\* updated_at is Some(clock value) for an ISO-8601 timestamp and None for
\* anything that makes fromisoformat raise (a missing value, free text)
Parsable(updated_at) == updated_at # None

\* a variant that forgets `.days`: the age in clock ticks
DaysSinceInTicks(updated_at, t) == t - updated_at[1]

\* (now - updated).days
DaysSince(updated_at, t) == (t - updated_at[1]) \div DayLen

\* a variant whose first step excludes its bound
freshness_scoreStrict(updated_at, t) ==
    IF ~Parsable(updated_at) THEN 200
    ELSE IF DaysSince(updated_at, t) < 7 THEN 1000
    ELSE IF DaysSince(updated_at, t) <= 30 THEN 900
    ELSE IF DaysSince(updated_at, t) <= 90 THEN 750
    ELSE IF DaysSince(updated_at, t) <= 180 THEN 600
    ELSE IF DaysSince(updated_at, t) <= 1825 THEN 500
    ELSE 300

freshness_score(updated_at, t) ==
    IF ~Parsable(updated_at) THEN 200
    ELSE IF DaysSince(updated_at, t) <= 7 THEN 1000
    ELSE IF DaysSince(updated_at, t) <= 30 THEN 900
    ELSE IF DaysSince(updated_at, t) <= 90 THEN 750
    ELSE IF DaysSince(updated_at, t) <= 180 THEN 600
    ELSE IF DaysSince(updated_at, t) <= 1825 THEN 500
    ELSE 300

\* "example" in text or "demo" in text, on the lowered description
MentionsExample(description) == description \in {"a demo app", "Example code"}

\* description is "" for None: (description or "")
readme_hint_score(description, topics) ==
    Min(200 + (IF MentionsExample(description) THEN 300 ELSE 0)
            + (IF topics # <<>> THEN 200 ELSE 0),
        1000)

\* a variant without the two caps
activity_scoreUncapped(stars, forks, issues) ==
    stars + 3 * forks + (IF issues < 20 THEN 1400 ELSE 800)

\* in 1/10000: 0.5 * min(stars/5000, 1) is min(stars, 5000) / 10000
activity_score(stars, forks, issues) ==
    Min(stars, 5000) + 3 * Min(forks, 1000) + (IF issues < 20 THEN 1400 ELSE 800)

\* round(n / d) to the nearest integer, ties to even (Python's round)
RoundDiv(n, d) ==
    IF 2 * (n % d) < d THEN n \div d
    ELSE IF 2 * (n % d) > d THEN (n \div d) + 1
    ELSE IF (n \div d) % 2 = 0 THEN n \div d ELSE (n \div d) + 1

\* round(0.45 * freshness + 0.4 * activity + 0.15 * docs, 3), summed in 1/100000
compute_score(repo, t) ==
    RoundDiv(45 * freshness_score(Get(repo, "updated_at", None), t)
             + 4 * activity_score(Get(repo, "stargazers_count", 0),
                                  Get(repo, "forks_count", 0),
                                  Get(repo, "open_issues_count", 0))
             + 15 * readme_hint_score(Get(repo, "description", ""),
                                      Get(repo, "topics", <<>>)),
             100)

-----------------------------------------------------------------------------
(* services/reasoner.py *)

\* the templated text built from full_name, the star count and updated_at
FallbackReason(repo) ==
    "fallback:" \o Get(repo, "full_name", "None")
    \o ":" \o ToString(Get(repo, "stargazers_count", 0))

\* Reasoner.explain: chat is what self.llm.chat did ("unavailable": no client,
\* or the call raised; "ok": text)
Explain(user_query, repo, chat) ==
    IF chat.kind = "ok" THEN chat.text ELSE FallbackReason(repo)

-----------------------------------------------------------------------------
(* services/repo_recommender.py *)

\* repo.split("/")
SplitSlash(s) ==
    CASE s = "a/b" -> <<"a", "b">>
      [] s = "c/d" -> <<"c", "d">>
      [] s = "e/f" -> <<"e", "f">>
      [] s = "x/bad" -> <<"x", "bad">>
      [] s = "/repo" -> <<"", "repo">>
      [] s = "owner/" -> <<"owner", "">>
      [] s = "a/b/c" -> <<"a", "b", "c">>
      [] OTHER -> <<s>>

\* a JSON value that is not a string
NonString == "<number>"
IsStr(e) == e # NonString

\* line 85: isinstance(repo, str) and "/" in repo and len(repo.split("/")) == 2
ValidEntry(e) == IsStr(e) /\ Len(SplitSlash(e)) > 1 /\ Len(SplitSlash(e)) = 2

\* lines 81-91 on the parsed JSON value
ValidateRepos(repos, max_repos) ==
    IF repos.list THEN SelectSeq(Slice(repos.items, max_repos), ValidEntry) ELSE <<>>

\* RepoRecommender.recommend: chat is what self.llm.chat did. "unavailable": no
\* client, or the call raised; "json": the cleaned text is JSON; "embedded": it
\* is not, and the first bracketed substring is JSON; "garbage": neither.
Recommend(user_query, max_repos, chat) ==
    CASE chat.kind = "unavailable" -> <<>>
      [] chat.kind = "garbage" -> <<>>
      [] chat.kind \in {"json", "embedded"} -> ValidateRepos(chat.value, max_repos)

-----------------------------------------------------------------------------
(* The collaborators' answers: datasources/github_adapter.py and the chat model *)

RepoA ==
    [full_name |-> "a/b", html_url |-> "https://github.com/a/b",
     description |-> "a demo app", stargazers_count |-> 5000, forks_count |-> 1000,
     open_issues_count |-> 5, updated_at |-> Some(-12), topics |-> <<"ocr">>]

RepoC ==
    [full_name |-> "c/d", html_url |-> "https://github.com/c/d",
     description |-> "Example code", stargazers_count |-> 5000, forks_count |-> 0,
     open_issues_count |-> 5, updated_at |-> Some(-12), topics |-> <<"ocr">>]

RepoE ==
    [full_name |-> "e/f", html_url |-> "https://github.com/e/f",
     description |-> "a demo app", stargazers_count |-> 5000, forks_count |-> 0,
     open_issues_count |-> 5, updated_at |-> Some(-12), topics |-> <<"ocr">>]

\* a record RepoResult rejects: html_url is null
RepoBad ==
    [full_name |-> "x/bad", html_url |-> "",
     description |-> "", stargazers_count |-> 5000, forks_count |-> 0,
     open_issues_count |-> 5, updated_at |-> Some(-12), topics |-> <<"ocr">>]

\* what the repository search can return, and what a fetch by name can
Searchable == {RepoA, RepoC, RepoE, RepoBad}
Catalogue == Searchable

\* what GET /repos/{full_name} can answer: the record, or None (404, transport)
Details(full_name) ==
    {None} \cup {Some(c) : c \in {c \in Catalogue : c.full_name = full_name}}

SearchFailed == [ok |-> FALSE, repos |-> <<>>]
SearchOk(repos) == [ok |-> TRUE, repos |-> repos]

NoIntent == [keywords |-> <<>>, languages |-> <<>>, filters |-> <<>>]
ChatUnavailable == [kind |-> "unavailable", text |-> "", data |-> NoIntent]
ChatMalformed == [kind |-> "malformed", text |-> "", data |-> NoIntent]
ChatIntent(data) == [kind |-> "ok", text |-> "", data |-> data]
ChatText(text) == [kind |-> "ok", text |-> text, data |-> NoIntent]

NoValue == [list |-> FALSE, items |-> <<>>]
RecUnavailable == [kind |-> "unavailable", value |-> NoValue]
RecGarbage == [kind |-> "garbage", value |-> NoValue]
RecJson(items) == [kind |-> "json", value |-> [list |-> TRUE, items |-> items]]
RecEmbedded(items) == [kind |-> "embedded", value |-> [list |-> TRUE, items |-> items]]
RecNotList == [kind |-> "json", value |-> NoValue]

-----------------------------------------------------------------------------
(* schemas.py *)

\* RepoResult(...) validates: html_url must be a URL
Constructible(repo) == Get(repo, "html_url", "") # ""

Last(seq) == seq[Len(seq)]

RepoResult(full_name, repo, score, reason) ==
    [name |-> Last(SplitSlash(full_name)), full_name |-> full_name,
     stars |-> Get(repo, "stargazers_count", 0), score |-> score, reason |-> reason]

SearchResponse(query, intent_keywords, results) ==
    [query |-> query, intent_keywords |-> intent_keywords, results |-> results]

\* the request options that only reach the query builder
BatchOpts ==
    [include_name |-> TRUE, include_description |-> TRUE, include_readme |-> TRUE,
     include_topics |-> TRUE, pushed_within_days |-> 1825, min_stars |-> 0]
StreamOpts == [BatchOpts EXCEPT !.pushed_within_days = 365]

-----------------------------------------------------------------------------
(* main.py: the locals of one request (search, or search_stream and its
   event_generator), and the code that runs between two awaits *)

MaxRecommend == 5       \* recommend(query, max_repos=5)
FirstKeywords == 4      \* select_keywords(parsed.keywords, max_keywords=4)
NarrowKeywords == 2     \* select_keywords(selected_keywords, max_keywords=2)

NoCalls ==
    [cache_get |-> 0, cache_set |-> 0, parse |-> 0, search |-> 0, recommend |-> 0,
     get_repository |-> 0, score |-> 0, explain |-> 0]

IdleRequest ==
    [pc |-> "idle", mode |-> "batch", query |-> "", use_cache |-> FALSE, limit |-> 0,
     opts |-> BatchOpts, hit |-> FALSE,
     keywords |-> <<>>, languages |-> <<>>, filters |-> <<>>, selected |-> <<>>,
     searched |-> <<>>, first |-> None, second |-> None, repos |-> <<>>, recs |-> <<>>, rec_arg |-> <<>>,
     i |-> 0, j |-> 0, phase |-> "kw", cur |-> None, cur_score |-> 0,
     seen |-> {}, fetched |-> <<>>, resolved |-> {}, explained |-> <<>>,
     enriched |-> <<>>, results |-> <<>>,
     events |-> <<>>, response |-> None, error |-> "",
     llm_failed |-> {}, calls |-> NoCalls]

Event(ev, data, count) == [ev |-> ev, data |-> data, count |-> count]

\* a variant that puts the new event in front of the earlier ones
EmitInFront(q, ev) == IF q.mode = "stream" THEN <<ev>> \o q.events ELSE q.events

\* a yield of event_generator; POST /search has no event stream
Emit(q, ev) == IF q.mode = "stream" THEN Append(q.events, ev) ELSE q.events

\* sorted(results, key=lambda r: r.score, reverse=True): stable
RECURSIVE InsertDesc(_, _)
InsertDesc(sorted, x) ==
    IF sorted = <<>> THEN <<x>>
    ELSE IF Head(sorted).score >= x.score
    THEN <<Head(sorted)>> \o InsertDesc(Tail(sorted), x)
    ELSE <<x>> \o sorted

\* a variant that is a sort, but puts equal scores in reverse order
RECURSIVE SortDescTiesReversed(_)
SortDescTiesReversed(results) ==
    IF results = <<>> THEN <<>>
    ELSE InsertDesc(SortDescTiesReversed(Tail(results)), Head(results))

RECURSIVE SortDesc(_)
SortDesc(results) ==
    IF results = <<>> THEN <<>>
    ELSE InsertDesc(SortDesc(SubSeq(results, 1, Len(results) - 1)), results[Len(results)])

\* a variant that truncates without sorting
FinalResultsUnsorted(results, limit) == Slice(results, limit)

\* lines 198-199 and 380: sort, truncate to the limit
FinalResults(results, limit) == Slice(SortDesc(results), limit)

\* a variant whose done event counts the enriched items, before truncation
FinalizedCountsEnriched(q) ==
    [q EXCEPT !.pc = "completed",
              !.enriched = q.results,
              !.results = FinalResults(q.results, q.limit),
              !.response = Some(SearchResponse(q.query, q.keywords,
                                               FinalResults(q.results, q.limit))),
              !.events = Emit(q, Event("done", "", Len(q.results)))]

\* lines 198-202 and 380-383: the response is built, and the request ends
Finalized(q) ==
    [q EXCEPT !.pc = "completed",
              !.enriched = q.results,
              !.results = FinalResults(q.results, q.limit),
              !.response = Some(SearchResponse(q.query, q.keywords,
                                               FinalResults(q.results, q.limit))),
              !.events = Emit(q, Event("done", "", Len(FinalResults(q.results, q.limit))))]

\* line 310 (stream): skip a candidate without full_name or already seen;
\* POST /search takes every candidate
Eligible(q, repo) ==
    q.mode = "batch" \/ (repo.full_name # "" /\ repo.full_name \notin q.seen)

\* a variant that forgets line 341, the test of `seen`
RecLeftUnseenIgnored(q) == (q.j + 1)..Len(q.recs)

KwLeft(q) == {k \in (q.i + 1)..Len(q.repos) : Eligible(q, q.repos[k])}
RecLeft(q) == {k \in (q.j + 1)..Len(q.recs) : q.recs[k] \notin q.seen}

SetMin(S) == CHOOSE x \in S : \A y \in S : x <= y

\* lines 340-346: the next recommended identifier not seen is fetched
NextRec(q) ==
    IF RecLeft(q) = {} THEN Finalized([q EXCEPT !.j = Len(q.recs)])
    ELSE [q EXCEPT !.pc = "get_repo", !.phase = "rec", !.j = SetMin(RecLeft(q)),
                   !.seen = @ \cup {q.recs[SetMin(RecLeft(q))]},
                   !.fetched = Append(@, q.recs[SetMin(RecLeft(q))]),
                   !.calls.get_repository = @ + 1]

\* lines 180-182 and 308-315: the next candidate is scored and its
\* explanation asked for; after the last one the recommended identifiers
\* (stream) or the finalization (batch) follow
NextKw(q, t) ==
    IF KwLeft(q) = {}
    THEN IF q.mode = "batch" THEN Finalized([q EXCEPT !.i = Len(q.repos)])
         ELSE NextRec([q EXCEPT !.i = Len(q.repos)])
    ELSE [q EXCEPT !.pc = "explain", !.phase = "kw", !.i = SetMin(KwLeft(q)),
                   !.seen = IF q.mode = "stream"
                            THEN @ \cup {q.repos[SetMin(KwLeft(q))].full_name} ELSE @,
                   !.cur = Some(q.repos[SetMin(KwLeft(q))]),
                   !.cur_score = compute_score(q.repos[SetMin(KwLeft(q))], t),
                   !.calls.score = @ + 1, !.calls.explain = @ + 1]

\* lines 351-359: the dict built from the fetched record
RepoDict(detail) ==
    [full_name |-> detail.full_name, html_url |-> detail.html_url,
     description |-> detail.description, stargazers_count |-> detail.stargazers_count,
     updated_at |-> detail.updated_at, topics |-> detail.topics]

\* lines 140-154 and do_query: the query is built and the search is called
StartSearch(q, keywords, pc, t) ==
    [q EXCEPT !.pc = pc,
              !.searched = Append(@, [keywords |-> keywords,
                                      github_query |-> build_search_query(
                                          keywords, q.languages, q.filters, q.opts, t)]),
              !.events = Emit(q, Event("debug-query",
                                       build_search_query(keywords, q.languages,
                                                          q.filters, q.opts, t), 0)),
              !.calls.search = @ + 1]

\* a variant that stores the response whether or not caching is enabled
WroteWhateverUseCache(q2) == q2.pc = "completed" /\ ~q2.hit

\* a request that wrote the cache in the step that produced q2
Wrote(q2) == q2.pc = "completed" /\ q2.use_cache /\ ~q2.hit

\* the step of request r ends in q2 (named q once computed); when it
\* finalized, line 201 / 382 ran
Commit(r, q2) ==
    \E q \in {q2} :
        /\ rq' = [rq EXCEPT ![r] = IF Wrote(q) THEN [q EXCEPT !.calls.cache_set = @ + 1]
                                   ELSE q]
        /\ store' = IF Wrote(q) THEN CacheSet(store, q.query, q.response[1], now) ELSE store
        /\ lastSet' = IF Wrote(q)
                      THEN [lastSet EXCEPT ![q.query] =
                                Some([at |-> now, value |-> q.response[1], by |-> r])]
                      ELSE lastSet
        /\ UNCHANGED <<now, op>>

-----------------------------------------------------------------------------
(* main.py: the steps of a request. A step runs from one await to the next. *)

\* cached_stream: the stored response replayed as events
RECURSIVE ItemEvents(_)
ItemEvents(results) ==
    IF results = <<>> THEN <<>>
    ELSE <<Event("item", Head(results).full_name, 0)>> \o ItemEvents(Tail(results))

Replay(cached) ==
    <<Event("intent", Join(",", cached.intent_keywords), 0)>>
    \o ItemEvents(cached.results)
    \o <<Event("done", "", Len(cached.results))>>

\* a variant that reads the cache and runs the pipeline all the same
ArriveNoShortCircuit(q, mode, body, cached) ==
    [q EXCEPT !.pc = "parse", !.mode = mode, !.query = body.query,
              !.use_cache = body.use_cache, !.limit = body.limit, !.opts = body.opts,
              !.calls.cache_get = IF body.use_cache THEN 1 ELSE 0,
              !.calls.parse = 1]

\* lines 125-130 and 219-230: the cache is read; a hit answers the request,
\* a miss calls the intent parser
Arrive(q, mode, body, cached) ==
    IF Truthy(cached)
    THEN [q EXCEPT !.pc = "completed", !.mode = mode, !.query = body.query,
                   !.use_cache = body.use_cache, !.limit = body.limit, !.opts = body.opts,
                   !.hit = TRUE, !.results = cached[1].results, !.response = cached,
                   !.events = IF mode = "stream" THEN Replay(cached[1]) ELSE <<>>,
                   !.calls.cache_get = 1]
    ELSE [q EXCEPT !.pc = "parse", !.mode = mode, !.query = body.query,
                   !.use_cache = body.use_cache, !.limit = body.limit, !.opts = body.opts,
                   !.calls.cache_get = IF body.use_cache THEN 1 ELSE 0,
                   !.calls.parse = 1]

Start(r, mode, body) ==
    /\ rq[r].pc = "idle"
    /\ rq' = [rq EXCEPT ![r] =
                Arrive(rq[r], mode, body,
                       IF body.use_cache THEN CacheGet(store, body.query, now) ELSE None)]
    /\ store' = IF body.use_cache THEN StoreAfterGet(store, body.query, now) ELSE store
    /\ UNCHANGED <<now, lastSet, op>>

\* POST /search
StartBatch(r, body) == Start(r, "batch", body)

\* GET /search/stream
StartStream(r, params) == Start(r, "stream", params)

\* lines 131-132, 235-237, 155-156 and 257-259/270-272: the request ends in failed
Failed(q, why, detail) ==
    [q EXCEPT !.pc = "failed", !.error = why, !.events = Emit(q, Event("error", detail, 0))]

\* lines 134-154 and 231-234, 263-265
Parsed(q, res, t) ==
    IF res.raised THEN Failed(q, "intent", "Intent parse failed")
    ELSE StartSearch(
           [q EXCEPT !.keywords = IF res.intent.keywords = <<>> THEN <<q.query>>
                                  ELSE res.intent.keywords,
                     !.languages = res.intent.languages,
                     !.filters = res.intent.filters,
                     !.selected = select_keywords(
                         IF res.intent.keywords = <<>> THEN <<q.query>>
                         ELSE res.intent.keywords, FirstKeywords),
                     !.events = Emit(q, Event("intent",
                         Join(",", select_keywords(
                             IF res.intent.keywords = <<>> THEN <<q.query>>
                             ELSE res.intent.keywords, FirstKeywords)), 0))],
           select_keywords(IF res.intent.keywords = <<>> THEN <<q.query>>
                           ELSE res.intent.keywords, FirstKeywords),
           "search", t)

\* intent_parser.parse returned
ParseReturns(r, chat) ==
    /\ rq[r].pc = "parse"
    /\ \E res \in {IntentParse(rq[r].query, chat)} :
          Commit(r, Parsed([rq[r] EXCEPT !.llm_failed =
                                IF chat.kind = "ok" THEN @ ELSE @ \cup {"intent"}],
                           res, now))

\* lines 179-182 (batch) and 290-294 (stream): what follows the searches
AfterSearch(q, t) ==
    IF q.mode = "batch" THEN NextKw(q, t)
    ELSE [q EXCEPT !.pc = "recommend", !.calls.recommend = @ + 1,
                   !.rec_arg = Append(@, [query |-> q.query, max_repos |-> MaxRecommend])]

\* a variant that narrows whatever the number of keywords
ShouldNarrowAnyCount(repos, selected) == repos = <<>>

\* lines 158-160 and 277-278: when is the search narrowed
ShouldNarrow(repos, selected) == repos = <<>> /\ Len(selected) > 1

\* the first search_repositories call returned, or raised
SearchReturns(r, out) ==
    /\ rq[r].pc = "search"
    /\ Commit(r,
         IF ~out.ok THEN Failed(rq[r], "search", "GitHub API error")
         ELSE IF ShouldNarrow(out.repos, rq[r].selected)
         THEN StartSearch([rq[r] EXCEPT !.first = Some(out.repos)],
                          select_keywords(rq[r].selected, NarrowKeywords), "narrow", now)
         ELSE AfterSearch([rq[r] EXCEPT !.first = Some(out.repos), !.repos = out.repos], now))

\* a variant that searches again for as long as nothing is found
NarrowReturnsRetrying(r, out) ==
    /\ rq[r].pc = "narrow"
    /\ Commit(r,
         IF ~out.ok THEN Failed(rq[r], "search", "GitHub API error")
         ELSE IF out.repos = <<>>
         THEN StartSearch(rq[r], select_keywords(rq[r].selected, NarrowKeywords),
                          "narrow", now)
         ELSE AfterSearch([rq[r] EXCEPT !.second = Some(out.repos), !.repos = out.repos], now))

\* the narrowed search_repositories call returned, or raised
NarrowReturns(r, out) ==
    /\ rq[r].pc = "narrow"
    /\ Commit(r,
         IF ~out.ok THEN Failed(rq[r], "search", "GitHub API error")
         ELSE AfterSearch([rq[r] EXCEPT !.second = Some(out.repos), !.repos = out.repos], now))

\* repo_recommender.recommend returned (stream only)
RecommendReturns(r, chat) ==
    /\ rq[r].pc = "recommend"
    /\ Commit(r, NextKw([rq[r] EXCEPT
                            !.recs = Recommend(rq[r].query, MaxRecommend, chat),
                            !.llm_failed =
                                IF chat.kind \in {"json", "embedded"} /\ chat.value.list
                                THEN @ ELSE @ \cup {"recommend"}],
                        now))

\* lines 183-196, 316-334 and 362-377: the RepoResult is built; a failure ends
\* a batch request and is reported and skipped in a stream
Enriched(q, reason, kind) ==
    IF Constructible(q.cur[1])
    THEN [q EXCEPT !.explained = Append(@, kind),
                   !.results =
                      Append(@, RepoResult(IF q.phase = "kw" THEN q.cur[1].full_name
                                           ELSE q.recs[q.j],
                                           q.cur[1], q.cur_score, reason)),
                   !.events = Emit(q, Event("item", IF q.phase = "kw" THEN q.cur[1].full_name
                                                    ELSE q.recs[q.j], 0))]
    ELSE IF q.mode = "batch" THEN Failed(q, "item", "")
    ELSE [q EXCEPT !.events = Emit(q, Event("error", IF q.phase = "kw" THEN "Scoring error"
                                                     ELSE "LLM recommended repo fetch error", 0))]

Continue(q, t) ==
    IF q.pc = "failed" THEN q
    ELSE IF q.phase = "kw" THEN NextKw(q, t) ELSE NextRec(q)

\* reasoner.explain returned
ExplainReturns(r, chat) ==
    /\ rq[r].pc = "explain"
    /\ Commit(r, Continue(Enriched([rq[r] EXCEPT !.llm_failed =
                                        IF chat.kind = "ok" THEN @ ELSE @ \cup {"explain"}],
                                   Explain(rq[r].query, rq[r].cur[1], chat), chat.kind), now))

\* the answers get_repository can give to the call request r waits for
PendingDetails(r) ==
    IF rq[r].pc = "get_repo" THEN Details(rq[r].recs[rq[r].j]) ELSE {}

\* a variant in which an identifier that does not resolve ends the request
GetRepoReturnsOrAbort(r, detail) ==
    /\ rq[r].pc = "get_repo"
    /\ Commit(r,
         IF ~Truthy(detail) THEN Failed(rq[r], "resolve", "LLM recommended repo fetch error")
         ELSE [rq[r] EXCEPT !.pc = "explain",
                            !.resolved = @ \cup {rq[r].recs[rq[r].j]},
                            !.cur = Some(RepoDict(detail[1])),
                            !.cur_score = compute_score(RepoDict(detail[1]), now),
                            !.calls.score = @ + 1, !.calls.explain = @ + 1])

\* github.get_repository returned (stream only)
GetRepoReturns(r, detail) ==
    /\ rq[r].pc = "get_repo"
    /\ Commit(r,
         IF ~Truthy(detail) THEN NextRec(rq[r])
         ELSE [rq[r] EXCEPT !.pc = "explain",
                            !.resolved = @ \cup {rq[r].recs[rq[r].j]},
                            !.cur = Some(RepoDict(detail[1])),
                            !.cur_score = compute_score(RepoDict(detail[1]), now),
                            !.calls.score = @ + 1, !.calls.explain = @ + 1])

\* time passes
Tick ==
    /\ now < MaxTime
    /\ now' = now + 1
    /\ UNCHANGED <<store, rq, lastSet, op>>

-----------------------------------------------------------------------------
(* The inputs of a request and the answers of its collaborators *)

Queries == {"crawler", "ocr"}

\* SearchRequest.limit is any int; Query(10, ge=1, le=50) is at least 1
BatchLimits == {-1, 0, 1, MaxLimit}
StreamLimits == {1, MaxLimit}

\* one request on its own: its query and use_cache only name the cache entry
\* it writes (Spec varies use_cache)
Bodies == [query : {"ocr"}, use_cache : {TRUE}, limit : BatchLimits, opts : {BatchOpts}]
Params == [query : {"ocr"}, use_cache : {TRUE}, limit : StreamLimits, opts : {StreamOpts}]

IntentChats ==
    {ChatUnavailable, ChatMalformed,
     ChatIntent([keywords |-> <<"x", "y", "z">>, languages |-> <<"go">>, filters |-> <<>>]),
     ChatIntent([keywords |-> <<"X">>, languages |-> <<>>, filters |-> <<>>]),
     ChatIntent([keywords |-> <<"x", "X", "x">>, languages |-> <<>>, filters |-> <<>>])}

SearchOutcomes == {SearchFailed} \cup {SearchOk(l) : l \in SeqsUpTo(Searchable, MaxRepos)}

RecEntries == {"a/b", "e/f", "x/bad", "bad-format"}
RecChats ==
    {RecUnavailable, RecGarbage, RecNotList}
    \cup {RecJson(l) : l \in SeqsUpTo(RecEntries, MaxRecs)}

ExplainChats == {ChatUnavailable, ChatText("llm text")}

NoOp == [name |-> "none", key |-> "", result |-> None]

Init ==
    /\ store = EmptyStore(Queries)
    /\ now = 0
    /\ rq = [r \in Slots |-> IdleRequest]
    /\ lastSet = [k \in Queries |-> None]
    /\ op = NoOp

-----------------------------------------------------------------------------
(* SpecRequest: one request, every answer of its collaborators *)

NextRequest ==
    \/ \E body \in Bodies : StartBatch("r1", body)
    \/ \E params \in Params : StartStream("r1", params)
    \/ \E chat \in IntentChats : ParseReturns("r1", chat)
    \/ \E out \in SearchOutcomes : SearchReturns("r1", out)
    \/ \E out \in SearchOutcomes : NarrowReturns("r1", out)
    \/ \E chat \in RecChats : RecommendReturns("r1", chat)
    \/ \E chat \in ExplainChats : ExplainReturns("r1", chat)
    \/ \E detail \in PendingDetails("r1") : GetRepoReturns("r1", detail)

SpecRequest == Init /\ [][NextRequest]_vars

-----------------------------------------------------------------------------
(* Spec: the service. Two requests in flight over the one cache (main.py
   line 43, a module global), interleaved at their awaits, while time passes. *)

SysQueries == {"ocr"}
SysLimits == {1, MaxLimit}

SysBodies == [query : SysQueries, use_cache : BOOLEAN, limit : SysLimits, opts : {BatchOpts}]
SysParams == [query : SysQueries, use_cache : BOOLEAN, limit : SysLimits, opts : {StreamOpts}]

SysIntentChats ==
    {ChatIntent([keywords |-> <<"x", "y", "z">>, languages |-> <<>>, filters |-> <<>>])}

SysSearchOutcomes == {SearchFailed, SearchOk(<<>>), SearchOk(<<RepoC, RepoA>>)}

SysRecChats == {RecJson(<<"e/f">>)}

SysExplainChats == {ChatText("llm text")}

Next ==
    \/ \E r \in Slots, body \in SysBodies : StartBatch(r, body)
    \/ \E r \in Slots, params \in SysParams : StartStream(r, params)
    \/ \E r \in Slots, chat \in SysIntentChats : ParseReturns(r, chat)
    \/ \E r \in Slots, out \in SysSearchOutcomes : SearchReturns(r, out)
    \/ \E r \in Slots, out \in SysSearchOutcomes : NarrowReturns(r, out)
    \/ \E r \in Slots, chat \in SysRecChats : RecommendReturns(r, chat)
    \/ \E r \in Slots, chat \in SysExplainChats : ExplainReturns(r, chat)
    \/ \E r \in Slots : \E detail \in PendingDetails(r) : GetRepoReturns(r, detail)
    \/ Tick

Spec == Init /\ [][Next]_vars

-----------------------------------------------------------------------------
(* SpecCache: InMemoryCache on its own, under any sequence of get and set *)

CacheValues == {"v1", "v2"}

\* cache.set(key, value)
CacheOpSet(key, value) ==
    /\ store' = CacheSet(store, key, value, now)
    /\ lastSet' = [lastSet EXCEPT ![key] = Some([at |-> now, value |-> value, by |-> "op"])]
    /\ op' = [name |-> "set", key |-> key, result |-> None]
    /\ UNCHANGED <<now, rq>>

\* cache.get(key)
CacheOpGet(key) ==
    /\ store' = StoreAfterGet(store, key, now)
    /\ op' = [name |-> "get", key |-> key, result |-> CacheGet(store, key, now)]
    /\ UNCHANGED <<now, rq, lastSet>>

\* time passes between two calls
CacheTick ==
    /\ now < MaxTime
    /\ now' = now + 1
    /\ op' = [name |-> "tick", key |-> "", result |-> None]
    /\ UNCHANGED <<store, rq, lastSet>>

NextCache ==
    \/ \E key \in Queries, value \in CacheValues : CacheOpSet(key, value)
    \/ \E key \in Queries : CacheOpGet(key)
    \/ CacheTick

SpecCache == Init /\ [][NextCache]_vars

-----------------------------------------------------------------------------
(* Properties of one request *)

Names(repos) == {repos[k].full_name : k \in 1..Len(repos)}

DistinctNames(results) ==
    \A a, b \in 1..Len(results) : a # b => results[a].full_name # results[b].full_name

SortedByScore(results) ==
    \A k \in 1..(Len(results) - 1) : results[k].score >= results[k + 1].score

Completed(q) == q.pc = "completed"
Computed(q) == q.pc = "completed" /\ ~q.hit
Ended(q) == q.pc \in {"completed", "failed"}

NoErrorEvent(q) == \A k \in 1..Len(q.events) : q.events[k].ev # "error"

\* the first candidate of that name in a search result
FirstNamed(repos, n) == repos[SetMin({k \in 1..Len(repos) : repos[k].full_name = n})]

ResultsFor(q, n) == {k \in 1..Len(q.enriched) : q.enriched[k].full_name = n}

\* get_repository is never called for an identifier the search returned
NeverFetched(q) == \A k \in 1..Len(q.fetched) : q.fetched[k] \notin Names(q.repos)

\* every result for n carries the score of the search record of n
FromSearchRecord(q, n) ==
    \A k \in ResultsFor(q, n) :
        q.enriched[k].score = compute_score(FirstNamed(q.repos, n), now)

\* with every enrichment succeeding and the limit not binding, the result
\* names are the search names plus the resolved recommendations
UnionOfNames(q) ==
    (Computed(q) /\ NoErrorEvent(q) /\ Len(q.enriched) <= q.limit) =>
        Names(q.results) = Names(q.repos) \cup q.resolved

\* C2: an identifier both searched and recommended is never fetched, has
\* exactly one result, built from the search record; and with every
\* enrichment succeeding and the limit not binding the result names are the
\* search names plus the resolved recommendations
C2_KeywordRecordWins ==
    \A r \in Slots :
        /\ NeverFetched(rq[r])
        /\ Computed(rq[r]) =>
             \A n \in Names(rq[r].repos) \cap Range(rq[r].recs) :
                 Cardinality(ResultsFor(rq[r], n)) = 1 /\ FromSearchRecord(rq[r], n)
        /\ UnionOfNames(rq[r])

\* C2 as amended: the identifier has exactly one result when RepoResult
\* accepts its search record, and none when that enrichment failed
C2_KeywordRecordWinsIfEnriched ==
    \A r \in Slots :
        /\ NeverFetched(rq[r])
        /\ Computed(rq[r]) =>
             \A n \in Names(rq[r].repos) \cap Range(rq[r].recs) :
                 /\ Cardinality(ResultsFor(rq[r], n))
                        = IF Constructible(FirstNamed(rq[r].repos, n)) THEN 1 ELSE 0
                 /\ FromSearchRecord(rq[r], n)
        /\ UnionOfNames(rq[r])

\* the scenario of the specification: a/b and c/d found, a/b and e/f recommended
C2_Witness ==
    \E r \in Slots :
        /\ Computed(rq[r]) /\ NoErrorEvent(rq[r])
        /\ Names(rq[r].repos) = {"a/b", "c/d"}
        /\ rq[r].recs = <<"a/b", "e/f">>
        /\ rq[r].fetched = <<"e/f">>
        /\ Names(rq[r].results) = {"a/b", "c/d", "e/f"}
        /\ Len(rq[r].results) = 3

\* C3: every finalized result list, returned or cached, is in descending
\* score order
C3_SortedByScore ==
    /\ \A r \in Slots : Completed(rq[r]) => SortedByScore(rq[r].results)
    /\ \A k \in Queries : Truthy(store[k]) => SortedByScore(store[k][1].value.results)

\* a response whose items were enriched in ascending score order
C3_Witness ==
    \E r \in Slots :
        /\ Computed(rq[r]) /\ Len(rq[r].results) >= 2
        /\ rq[r].enriched[1].score < rq[r].enriched[2].score
        /\ rq[r].results[1].score > rq[r].results[2].score
        /\ Truthy(store[rq[r].query])

\* how many of the items score strictly more than x
Above(items, x) == Cardinality({k \in 1..Len(items) : items[k].score > x})

Searched(q) == q.pc \notin {"idle", "parse", "search"} /\ ~q.hit

\* C8: the search is retried exactly when the first one returned no candidate
\* and more than one keyword was selected; the retry takes the first two
\* selected keywords; there are at most two search calls; and the response
\* is built from the candidates of the retry
C8_NarrowOnce ==
    \A r \in Slots :
        /\ Len(rq[r].searched) <= 2
        /\ rq[r].calls.search = Len(rq[r].searched)
        /\ Searched(rq[r]) =>
             (Len(rq[r].searched) = 2
                 <=> (Truthy(rq[r].first) /\ rq[r].first[1] = <<>>
                      /\ Len(rq[r].selected) > 1))
        /\ Len(rq[r].searched) = 2 =>
             rq[r].searched[2].keywords
                 = SubSeq(rq[r].selected, 1, Min(2, Len(rq[r].selected)))
        /\ (Computed(rq[r]) /\ Truthy(rq[r].second)) =>
             /\ \A k \in 1..Len(rq[r].enriched) :
                    rq[r].enriched[k].full_name
                        \in Names(rq[r].second[1]) \cup Range(rq[r].recs)
             /\ \A k \in 1..Len(rq[r].second[1]) :
                    Constructible(rq[r].second[1][k]) =>
                        \E e \in 1..Len(rq[r].enriched) :
                            /\ rq[r].enriched[e].full_name = rq[r].second[1][k].full_name
                            /\ rq[r].enriched[e].score
                                   = compute_score(rq[r].second[1][k], now)

\* the scenario of the specification: three keywords find nothing, the first
\* two find two items, and the response holds those two
C8_Witness ==
    \E r \in Slots :
        /\ Computed(rq[r])
        /\ rq[r].selected = <<"x", "y", "z">>
        /\ rq[r].first = Some(<<>>)
        /\ rq[r].searched[2].keywords = <<"x", "y">>
        /\ Len(rq[r].second[1]) = 2
        /\ Names(rq[r].results) = Names(rq[r].second[1])
        /\ Len(rq[r].results) = 2

\* C9: a request that got past intent resolution has called the
\* recommendation engine exactly once, with the raw query and 5, when it ends
C9_RecommendOnce ==
    \A r \in Slots :
        (Ended(rq[r]) /\ ~rq[r].hit /\ rq[r].error # "intent") =>
            /\ rq[r].calls.recommend = 1
            /\ rq[r].rec_arg = <<[query |-> rq[r].query, max_repos |-> 5]>>

\* the templated explanation of a result
IsFallback(result) ==
    result.reason = "fallback:" \o result.full_name \o ":" \o ToString(result.stars)

\* C10: a request only fails on a failed search or (batch) on a record that
\* RepoResult rejects, never on the chat model; a failed intent chat leaves
\* the heuristic parse, a failed recommendation chat an empty list, a failed
\* explanation chat the templated text
C10_ChatFailureNeverFatal ==
    \A r \in Slots :
        /\ rq[r].pc = "failed" =>
             \/ rq[r].error = "search" /\ rq[r].pc = "failed" /\ ~Truthy(rq[r].second)
                    /\ Len(rq[r].searched) >= 1
             \/ rq[r].error = "item" /\ rq[r].mode = "batch" /\ ~Constructible(rq[r].cur[1])
        /\ ("intent" \in rq[r].llm_failed /\ rq[r].pc # "failed") =>
             rq[r].keywords = heuristic_parse(rq[r].query).keywords
        /\ "recommend" \in rq[r].llm_failed => rq[r].recs = <<>>
        /\ Computed(rq[r]) =>
             \A k \in 1..Len(rq[r].enriched) :
                 rq[r].explained[k] # "ok" => IsFallback(rq[r].enriched[k])

\* a batch and a stream request that completed although every chat call failed
C10_Witness ==
    \E r \in Slots :
        /\ Computed(rq[r])
        /\ rq[r].llm_failed = {"intent", "recommend", "explain"}
        /\ Len(rq[r].results) = 2
        /\ \A k \in 1..2 : IsFallback(rq[r].results[k])
        /\ rq[r].events[Len(rq[r].events)].ev = "done"

-----------------------------------------------------------------------------
(* Properties of the cache and of the service *)

\* the collaborators a cache hit leaves alone
PipelineUntouched(q) ==
    /\ q.calls.parse = 0 /\ q.calls.search = 0 /\ q.calls.recommend = 0
    /\ q.calls.get_repository = 0 /\ q.calls.score = 0 /\ q.calls.explain = 0
    /\ q.calls.cache_set = 0

\* the full_names of the item events of a stream, in order
RECURSIVE ItemNames(_)
ItemNames(events) ==
    IF events = <<>> THEN <<>>
    ELSE IF Head(events).ev = "item" THEN <<Head(events).data>> \o ItemNames(Tail(events))
    ELSE ItemNames(Tail(events))

\* the full_names of a result list, in order
NameSeq(results) == [k \in 1..Len(results) |-> results[k].full_name]

\* a request arrives with caching enabled while a live entry exists for its query
ArrivesOnLiveEntry(r) ==
    /\ rq[r].pc = "idle" /\ rq'[r].pc # "idle" /\ rq'[r].use_cache
    /\ Truthy(store[rq'[r].query])
    /\ now <= store[rq'[r].query][1].expires_at

\* C5: a request that arrives on a live entry is a hit: it ends in completed
\* at once with the stored results in their stored order (replayed as item
\* events in a stream), and it never calls the parser, the search,
\* get_repository, the recommender, the scorer or the reasoner
C5_HitShortCircuits ==
    /\ [](\A r \in Slots : rq[r].hit => Completed(rq[r]) /\ PipelineUntouched(rq[r]))
    /\ [][\A r \in Slots :
            ArrivesOnLiveEntry(r) =>
                /\ rq'[r].hit /\ Completed(rq'[r]) /\ PipelineUntouched(rq'[r])
                /\ rq'[r].response = Some(store[rq'[r].query][1].value)
                /\ rq'[r].results = store[rq'[r].query][1].value.results
                /\ rq'[r].mode = "stream" =>
                     /\ ItemNames(rq'[r].events)
                            = NameSeq(store[rq'[r].query][1].value.results)
                     /\ Last(rq'[r].events).ev = "done"
                     /\ NoErrorEvent(rq'[r])]_vars

\* a stream request replayed the three results another request had stored
C5_Witness ==
    \E r \in Slots, w \in Slots :
        /\ rq[r].hit /\ rq[r].mode = "stream" /\ Completed(rq[r])
        /\ Computed(rq[w]) /\ rq[w].use_cache
        /\ rq[r].response = rq[w].response
        /\ Len(rq[r].results) = 3
        /\ ItemNames(rq[r].events) = NameSeq(rq[w].results)

\* C6: get(k) returns the value of the last set(k, v) up to and including time
\* expires_at = time of the set + TTL; after that time it returns absent and
\* the entry is gone from the store; with no set it returns absent
C6_RoundTripAndLazyExpiry ==
    /\ op.name = "set" =>
         store[op.key] = Some([expires_at |-> now + CacheTTL,
                               value |-> lastSet[op.key][1].value])
    /\ op.name = "get" =>
         IF ~Truthy(lastSet[op.key]) THEN op.result = None /\ store[op.key] = None
         ELSE IF now <= lastSet[op.key][1].at + CacheTTL
         THEN /\ op.result = Some(lastSet[op.key][1].value)
              /\ store[op.key] = Some([expires_at |-> lastSet[op.key][1].at + CacheTTL,
                                       value |-> lastSet[op.key][1].value])
         ELSE op.result = None /\ store[op.key] = None

\* a get at the very time expires_at, which still returns the value
C6_Witness ==
    /\ op.name = "get"
    /\ Truthy(lastSet[op.key])
    /\ now = lastSet[op.key][1].at + CacheTTL
    /\ op.result = Some(lastSet[op.key][1].value)

\* C7: the cache entry of a query is absent or the whole response of the
\* request that wrote last, a request that computed its response with caching
\* enabled; every such request ran the pipeline and wrote once
C7_LastWriterWins ==
    /\ \A k \in Queries :
         Truthy(store[k]) =>
             /\ Truthy(lastSet[k])
             /\ store[k][1].value = lastSet[k][1].value
             /\ Computed(rq[lastSet[k][1].by])
             /\ rq[lastSet[k][1].by].use_cache
             /\ rq[lastSet[k][1].by].query = k
             /\ rq[lastSet[k][1].by].response = Some(store[k][1].value)
    /\ \A r \in Slots :
         (Computed(rq[r]) /\ rq[r].use_cache) =>
             /\ rq[r].calls.cache_get = 1 /\ rq[r].calls.parse = 1
             /\ rq[r].calls.search >= 1 /\ rq[r].calls.cache_set = 1
             /\ Truthy(lastSet[rq[r].query])
    /\ \A r \in Slots : rq[r].calls.cache_set = 1 => (Computed(rq[r]) /\ rq[r].use_cache)

\* two requests for one query, neither served by the cache, computed different
\* responses before any entry could expire; the entry is the later one's
C7_Witness ==
    /\ now <= CacheTTL
    /\ Computed(rq["r1"]) /\ Computed(rq["r2"])
    /\ rq["r1"].use_cache /\ rq["r2"].use_cache
    /\ rq["r1"].query = rq["r2"].query
    /\ rq["r1"].response # rq["r2"].response
    /\ lastSet[rq["r1"].query][1].by = "r2"
    /\ store[rq["r1"].query][1].value = rq["r2"].response[1]

-----------------------------------------------------------------------------
(* Properties of the failure paths *)

\* the stream reported a failed search
SearchErrorReported(q) ==
    \E k \in 1..Len(q.events) :
        q.events[k].ev = "error" /\ q.events[k].data = "GitHub API error"

\* C11: a stream whose keyword search (first or narrowed) failed reports it as
\* an error event and goes on with no candidates: the recommendation is asked
\* for, the request does not end in failed, and the last event is done
C11_StreamSearchFailureNonFatal ==
    \A r \in Slots :
        (rq[r].mode = "stream" /\ rq[r].error = "search") =>
            /\ SearchErrorReported(rq[r])
            /\ rq[r].pc # "failed"
            /\ Ended(rq[r]) =>
                 /\ rq[r].calls.recommend = 1
                 /\ Last(rq[r].events).ev = "done"

-----------------------------------------------------------------------------
(* SpecIntent: IntentParser.parse on its own, on any query and any answer of
   the chat model *)

MaxLLMKeywords == 3     \* longest keyword list drawn letter by letter

\* no request in flight, an empty cache
ServiceIdle ==
    /\ store = EmptyStore(Queries)
    /\ now = 0
    /\ rq = [r \in Slots |-> IdleRequest]
    /\ lastSet = [k \in Queries |-> None]

IntentQueries == {"ocr", "crawler", "OCR fast", "zh_kuai zh_xin", "go crawler"}

\* keyword lists of the model: short ones with case variants, and a long one
LLMKeywordLists ==
    SeqsUpTo({"x", "X", "y"}, MaxLLMKeywords)
    \cup {<<"k1", "k2", "k3", "k4", "k5", "k6", "k7">>}

IntentAnswers ==
    {ChatUnavailable, ChatMalformed}
    \cup {ChatIntent([keywords |-> l, languages |-> <<"go">>, filters |-> <<>>]) :
            l \in LLMKeywordLists}

InitIntent ==
    /\ ServiceIdle
    /\ op \in [name : {"parse"}, query : IntentQueries, chat : IntentAnswers,
               returned : {FALSE}, raised : {FALSE}, intent : {NoIntent}]

\* await intent_parser.parse(query)
ParseCall ==
    /\ op.name = "parse" /\ ~op.returned
    /\ op' = [op EXCEPT !.returned = TRUE,
                        !.raised = IntentParse(op.query, op.chat).raised,
                        !.intent = IntentParse(op.query, op.chat).intent]
    /\ UNCHANGED <<store, now, rq, lastSet>>

NextIntent == ParseCall

SpecIntent == InitIntent /\ [][NextIntent]_vars

\* no two entries of the list are equal ignoring case
NoCaseDuplicate(keywords) ==
    \A i, j \in 1..Len(keywords) : Lower(keywords[i]) = Lower(keywords[j]) => i = j

\* C12: the keywords of every ParsedIntent that parse returns hold no two
\* entries equal ignoring case, and at most 6 entries
C12_KeywordsDedupedAndCapped ==
    (op.name = "parse" /\ op.returned) =>
        /\ NoCaseDuplicate(op.intent.keywords)
        /\ Len(op.intent.keywords) <= 6

-----------------------------------------------------------------------------
(* SpecRec: RepoRecommender.recommend on its own, on any answer of the chat
   model and any max_repos *)

MaxArray == 3       \* longest array the chat model answers with

\* array entries: well-formed names, names with an empty segment, a name with
\* two separators, a name with none, and a JSON number
ArrayEntries == {"a/b", "e/f", "/repo", "owner/", "a/b/c", "bad-format", NonString}

RecAnswers ==
    {RecUnavailable, RecGarbage, RecNotList}
    \cup {RecJson(l) : l \in SeqsUpTo(ArrayEntries, MaxArray)}
    \cup {RecEmbedded(l) : l \in SeqsUpTo(ArrayEntries, MaxArray)}

InitRec ==
    /\ ServiceIdle
    /\ op \in [name : {"recommend"}, query : {"ocr"}, max_repos : 1..MaxArray,
               chat : RecAnswers, returned : {FALSE}, result : {<<>>}]

\* await repo_recommender.recommend(query, max_repos)
RecommendCall ==
    /\ op.name = "recommend" /\ ~op.returned
    /\ op' = [op EXCEPT !.returned = TRUE,
                        !.result = Recommend(op.query, op.max_repos, op.chat)]
    /\ UNCHANGED <<store, now, rq, lastSet>>

NextRecommender == RecommendCall

SpecRec == InitRec /\ [][NextRecommender]_vars

\* a string with exactly one separator between two non-empty segments
OwnerAndRepo(e) ==
    /\ IsStr(e)
    /\ Len(SplitSlash(e)) = 2
    /\ SplitSlash(e)[1] # "" /\ SplitSlash(e)[2] # ""

\* C13: every identifier recommend returns is a string with exactly one
\* separator and two non-empty segments
C13_OnlyOwnerSlashRepo ==
    (op.name = "recommend" /\ op.returned) =>
        \A k \in 1..Len(op.result) : OwnerAndRepo(op.result[k])

\* C14: recommend returns the first max_repos of the entries of the array that
\* pass the validation, in the order of the array
C14_FilterThenTruncate ==
    (op.name = "recommend" /\ op.returned /\ op.chat.value.list) =>
        op.result = Slice(SelectSeq(op.chat.value.items, ValidEntry), op.max_repos)

-----------------------------------------------------------------------------
(* SpecScore: compute_score called on one record at successive times *)

MaxCalls == 2       \* calls made on one record

\* ages, in whole days, at which the record is scored, and the clock values
\* that fall on them: the first tick of each day and the last tick of day 7
ScoreDays == {0, 7, 8, 30, 31, 90, 91, 180, 181, 1825, 1826}
ScoreTimes == {d * DayLen : d \in ScoreDays} \cup {7 * DayLen + (DayLen - 1)}

\* the records scored: updated at time 0, 10 days later, or without a
\* timestamp that parses
ScoreRepos ==
    [full_name : {"a/b"}, html_url : {"https://github.com/a/b"},
     stargazers_count : {0, 2500, 1000000}, forks_count : {0, 50000},
     open_issues_count : {19, 20},
     updated_at : {None, Some(0), Some(10 * DayLen)},
     description : {"", "a demo app"}, topics : {<<>>, <<"ocr">>}]

InitScore ==
    /\ store = EmptyStore(Queries)
    /\ now = 0
    /\ rq = [r \in Slots |-> IdleRequest]
    /\ lastSet = [k \in Queries |-> None]
    /\ op \in [name : {"score"}, repo : ScoreRepos, calls : {<<>>}]

\* compute_score(repo) when the clock reads t
ScoreCall(t) ==
    /\ op.name = "score" /\ Len(op.calls) < MaxCalls
    /\ t >= now
    /\ now' = t
    /\ op' = [op EXCEPT !.calls = Append(@,
                [at |-> t,
                 score |-> compute_score(op.repo, t),
                 freshness |-> freshness_score(Get(op.repo, "updated_at", None), t),
                 activity |-> activity_score(Get(op.repo, "stargazers_count", 0),
                                             Get(op.repo, "forks_count", 0),
                                             Get(op.repo, "open_issues_count", 0)),
                 docs |-> readme_hint_score(Get(op.repo, "description", ""),
                                            Get(op.repo, "topics", <<>>))])]
    /\ UNCHANGED <<store, rq, lastSet>>

NextScore == \E t \in ScoreTimes : ScoreCall(t)

SpecScore == InitScore /\ [][NextScore]_vars

\* whole days between the record's update and a call
AgeInDays(call) == (call.at - op.repo.updated_at[1]) \div DayLen

\* the freshness step an age falls in
AgeStep(days) ==
    IF days <= 7 THEN 1 ELSE IF days <= 30 THEN 2 ELSE IF days <= 90 THEN 3
    ELSE IF days <= 180 THEN 4 ELSE IF days <= 1825 THEN 5 ELSE 6

ScoreCalls == IF op.name = "score" THEN op.calls ELSE <<>>

C16_ScoresInUnitInterval ==
    \A i \in 1..Len(ScoreCalls) :
        /\ ScoreCalls[i].score \in 0..1000
        /\ ScoreCalls[i].freshness \in 0..1000
        /\ ScoreCalls[i].activity \in 0..10000
        /\ ScoreCalls[i].docs \in 0..1000
        /\ 100 * ScoreCalls[i].score
             - (45 * ScoreCalls[i].freshness + 4 * ScoreCalls[i].activity
                + 15 * ScoreCalls[i].docs) \in -50..50

\* the highest score there is: a million stars, 50000 forks, fresh, documented
C16_Witness ==
    /\ Len(ScoreCalls) >= 1
    /\ op.repo.stargazers_count = 1000000 /\ op.repo.forks_count = 50000
    /\ op.repo.open_issues_count = 19
    /\ ScoreCalls[1].freshness = 1000 /\ ScoreCalls[1].docs = 700
    /\ ScoreCalls[1].activity = 9400
    /\ ScoreCalls[1].score = 931

\* C17: freshness is 1.0 up to 7 days, 0.9 for 8..30, 0.75 for 31..90, 0.6 for
\* 91..180, 0.5 for 181..1825, 0.3 beyond, and 0.2 without a timestamp that
\* parses
C17_FreshnessSteps ==
    \A i \in 1..Len(ScoreCalls) :
        ScoreCalls[i].freshness =
            IF op.repo.updated_at = None THEN 200
            ELSE CASE AgeInDays(ScoreCalls[i]) <= 7 -> 1000
                   [] AgeInDays(ScoreCalls[i]) \in 8..30 -> 900
                   [] AgeInDays(ScoreCalls[i]) \in 31..90 -> 750
                   [] AgeInDays(ScoreCalls[i]) \in 91..180 -> 600
                   [] AgeInDays(ScoreCalls[i]) \in 181..1825 -> 500
                   [] AgeInDays(ScoreCalls[i]) > 1825 -> 300

\* the record scored on the last tick of day 7 and then at 1826 days
C17_Witness ==
    /\ Len(ScoreCalls) = 2
    /\ op.repo.updated_at = Some(0)
    /\ ScoreCalls[1].at = 7 * DayLen + (DayLen - 1) /\ ScoreCalls[1].freshness = 1000
    /\ AgeInDays(ScoreCalls[2]) = 1826 /\ ScoreCalls[2].freshness = 300

-----------------------------------------------------------------------------
(* SpecQuery: build_search_query on its own *)

MaxQueryKeywords == 2   \* longest keyword list drawn word by word

QueryKeywordLists ==
    SeqsUpTo({"foo bar", "baz", "OCR"}, MaxQueryKeywords)
    \cup {<<"baz", "OCR", "x", "y">>, <<"zh_kuai", "x", "X", "y">>}

QueryOptions ==
    [include_name : BOOLEAN, include_description : BOOLEAN, include_readme : BOOLEAN,
     include_topics : BOOLEAN, pushed_within_days : {0, 30}, min_stars : {0, 10}]

InitQuery ==
    /\ ServiceIdle
    /\ op \in [name : {"build_search_query"}, keywords : QueryKeywordLists,
               languages : {<<>>, <<"go">>, <<"go", "rust">>},
               filters : {<<>>, <<"license:mit">>},
               opts : QueryOptions, returned : {FALSE}, result : {""}]

\* build_search_query(keywords, languages, filters, ...)
BuildQueryCall ==
    /\ op.name = "build_search_query" /\ ~op.returned
    /\ op' = [op EXCEPT !.returned = TRUE,
                        !.result = build_search_query(op.keywords, op.languages,
                                                      op.filters, op.opts, now)]
    /\ UNCHANGED <<store, now, rq, lastSet>>

NextQuery == BuildQueryCall

SpecQuery == InitQuery /\ [][NextQuery]_vars

\* the keyword terms: a keyword with a space in double quotes, others as they are
ExpectedTerms(keywords) ==
    [i \in 1..Len(keywords) |->
        IF HasSpace(keywords[i]) THEN "\"" \o keywords[i] \o "\"" ELSE keywords[i]]

\* in:<the enabled scopes among name, description, readme>, or nothing
ExpectedScope(o) ==
    IF ~(o.include_name \/ o.include_description \/ o.include_readme) THEN <<>>
    ELSE <<"in:" \o Join(",", SelectSeq(<<"name", "description", "readme">>,
               LAMBDA sc : \/ sc = "name" /\ o.include_name
                           \/ sc = "description" /\ o.include_description
                           \/ sc = "readme" /\ o.include_readme))>>

ExpectedLanguages(languages) ==
    [i \in 1..Len(languages) |-> "language:" \o languages[i]]

\* topic:<keyword> for the first 3 distinct single-token ASCII keywords
ExpectedTopics(keywords, o) ==
    IF ~o.include_topics THEN <<>>
    ELSE [i \in 1..Min(3, Len(DedupKeep(SelectSeq(keywords, TopicCandidate)))) |->
            "topic:" \o Lower(DedupKeep(SelectSeq(keywords, TopicCandidate))[i])]

\* C18: the query is the space-joined concatenation of the keyword terms, the
\* scope qualifier, the language qualifiers, pushed:> when the window is
\* positive, stars:>= when the minimum is positive, the topic qualifiers and
\* the filters, in that order
C18_QueryPartsInOrder ==
    (op.name = "build_search_query" /\ op.returned) =>
        op.result = Join(" ",
            ExpectedTerms(op.keywords)
            \o ExpectedScope(op.opts)
            \o ExpectedLanguages(op.languages)
            \o (IF op.opts.pushed_within_days > 0
                THEN <<"pushed:>" \o ToString((now \div DayLen) - op.opts.pushed_within_days)>>
                ELSE <<>>)
            \o (IF op.opts.min_stars > 0
                THEN <<"stars:>=" \o ToString(op.opts.min_stars)>> ELSE <<>>)
            \o ExpectedTopics(op.keywords, op.opts)
            \o op.filters)

\* the example of the claim (day 0, so the cutoff of a 30-day window is day -30)
C18_Witness ==
    /\ op.name = "build_search_query" /\ op.returned
    /\ op.keywords = <<"foo bar", "baz">> /\ op.languages = <<"go">>
    /\ op.opts.pushed_within_days = 30 /\ op.opts.min_stars = 10
    /\ op.opts.include_name /\ op.opts.include_description
    /\ ~op.opts.include_readme /\ ~op.opts.include_topics
    /\ op.filters = <<>>
    /\ op.result = "\"foo bar\" baz in:name,description language:go pushed:>-30 stars:>=10"

-----------------------------------------------------------------------------
(* Properties of the enrichment loops *)

\* the stream reported an item that could not be enriched
ItemErrorReported(q) ==
    \E k \in 1..Len(q.events) :
        /\ q.events[k].ev = "error"
        /\ q.events[k].data \in {"Scoring error", "LLM recommended repo fetch error"}

\* a candidate of the keyword search that cannot be made a RepoResult
HasBadCandidate(q) == \E k \in 1..Len(q.repos) : ~Constructible(q.repos[k])

\* the candidates that can be made a RepoResult, in order
GoodCandidates(q) == SelectSeq(q.repos, Constructible)

C19_StreamItemFailureReported ==
    \A r \in Slots :
        (rq[r].mode = "stream" /\ Ended(rq[r]) /\ ~rq[r].hit /\ rq[r].first # None
         /\ HasBadCandidate(rq[r])) =>
            /\ rq[r].pc = "completed"
            /\ ItemErrorReported(rq[r])
            /\ Last(rq[r].events).ev = "done"

\* the identifiers get_repository was asked for
FetchedNames(q) == {q.fetched[k] : k \in 1..Len(q.fetched)}

\* a fetched identifier that did not resolve: get_repository answered None, or
\* the record it answered cannot be made a RepoResult
FailsToResolve(q, id) ==
    /\ id \in FetchedNames(q)
    /\ \/ id \notin q.resolved
       \/ \E c \in Catalogue : c.full_name = id /\ ~Constructible(c)

\* C20: a recommended identifier that fails to resolve produces no item event
\* and no result; the identifiers after it are still processed; the request
\* does not fail and its last event is done
C20_UnresolvedRecommendationSkipped ==
    \A r \in Slots :
        rq[r].mode = "stream" =>
            /\ \A id \in FetchedNames(rq[r]) :
                  FailsToResolve(rq[r], id) =>
                      /\ \A k \in 1..Len(rq[r].events) :
                            ~(rq[r].events[k].ev = "item" /\ rq[r].events[k].data = id)
                      /\ \A k \in 1..Len(rq[r].results) : rq[r].results[k].full_name # id
                      /\ \A k \in 1..Len(rq[r].enriched) : rq[r].enriched[k].full_name # id
            /\ rq[r].calls.get_repository > 0 => rq[r].pc # "failed"
            /\ (Ended(rq[r]) /\ rq[r].calls.get_repository > 0) =>
                  /\ rq[r].pc = "completed"
                  /\ \A k \in 1..Len(rq[r].recs) : rq[r].recs[k] \in rq[r].seen
                  /\ \A k \in 1..Len(rq[r].recs) :
                        rq[r].recs[k] \in FetchedNames(rq[r])
                        \/ \E n \in 1..Len(rq[r].repos) :
                              rq[r].repos[n].full_name = rq[r].recs[k]
                  /\ Last(rq[r].events).ev = "done"

\* a finished stream whose first recommended identifier did not resolve and
\* whose second one did and became a result
C20_Witness ==
    /\ rq["r1"].mode = "stream" /\ rq["r1"].pc = "completed"
    /\ Len(rq["r1"].fetched) = 2
    /\ rq["r1"].fetched[1] \notin rq["r1"].resolved
    /\ rq["r1"].fetched[2] \in rq["r1"].resolved
    /\ \E k \in 1..Len(rq["r1"].enriched) :
          rq["r1"].enriched[k].full_name = rq["r1"].fetched[2]
    /\ Last(rq["r1"].events).ev = "done"

-----------------------------------------------------------------------------
(* Properties of the cache writes *)

\* the step finalizes request r
Finalizes(r) == ~Ended(rq[r]) /\ Computed(rq'[r])

\* the entry request r stores when it finalizes at the current time
EntryOf(q) == Some([expires_at |-> now + CacheTTL, value |-> q.response[1]])

\* C21: the store changes only when a cache-enabled request finalizes (its
\* entry, under its query, once) or when a cache-enabled request arrives on
\* an expired entry (lazy eviction); a hit, a failed request and a request
\* with caching disabled never write, and a request with caching disabled
\* never reads
C21_WriteOnlyAtFinalization ==
    /\ [](\A r \in Slots :
            /\ rq[r].calls.cache_set <= 1
            /\ rq[r].calls.cache_set = 1 <=> (Computed(rq[r]) /\ rq[r].use_cache)
            /\ (rq[r].pc # "idle" /\ ~rq[r].use_cache) =>
                  rq[r].calls.cache_get = 0 /\ rq[r].calls.cache_set = 0
            /\ (rq[r].hit \/ rq[r].pc = "failed") => rq[r].calls.cache_set = 0)
    /\ [][\A k \in Queries :
            store'[k] # store[k] =>
                \/ \E r \in Slots :
                      /\ Finalizes(r) /\ rq'[r].use_cache /\ rq'[r].query = k
                      /\ rq[r].calls.cache_set = 0
                      /\ store'[k] = EntryOf(rq'[r])
                \/ \E r \in Slots :
                      /\ rq[r].pc = "idle" /\ rq'[r].pc = "parse"
                      /\ rq'[r].use_cache /\ rq'[r].query = k
                      /\ store[k][1].expires_at < now
                      /\ store'[k] = None]_vars
    /\ [][\A r \in Slots :
            (rq'[r] # rq[r] /\ ~rq'[r].use_cache /\ ~rq[r].use_cache) =>
                store' = store]_vars
    /\ [][\A r \in Slots :
            (rq'[r] # rq[r] /\ rq'[r].pc = "failed") => store' = store]_vars
    /\ [][\A r \in Slots :
            (Finalizes(r) /\ rq'[r].use_cache) =>
                store'[rq'[r].query] = EntryOf(rq'[r])]_vars

\* a request with caching disabled computed its response while the entry
\* written by a cache-enabled request stayed as it was
C21_Witness ==
    \E r \in Slots, w \in Slots :
        /\ Computed(rq[w]) /\ rq[w].use_cache /\ rq[w].calls.cache_set = 1
        /\ Computed(rq[r]) /\ ~rq[r].use_cache
        /\ rq[r].calls.cache_get = 0 /\ rq[r].calls.cache_set = 0
        /\ rq[r].query = rq[w].query /\ rq[r].response # rq[w].response
        /\ lastSet[rq[w].query][1].by = w
        /\ store[rq[w].query] # None
        /\ store[rq[w].query][1].value = rq[w].response[1]

-----------------------------------------------------------------------------
(* SpecStream: one GET /search/stream request, every answer of its collaborators *)

NextStream ==
    \/ \E params \in Params : StartStream("r1", params)
    \/ \E chat \in IntentChats : ParseReturns("r1", chat)
    \/ \E out \in SearchOutcomes : SearchReturns("r1", out)
    \/ \E out \in SearchOutcomes : NarrowReturns("r1", out)
    \/ \E chat \in RecChats : RecommendReturns("r1", chat)
    \/ \E chat \in ExplainChats : ExplainReturns("r1", chat)
    \/ \E detail \in PendingDetails("r1") : GetRepoReturns("r1", detail)

SpecStream == Init /\ [][NextStream]_vars

-----------------------------------------------------------------------------
(* Properties of the event stream *)

\* the positions of the events of one kind
EventsOf(q, kind) == {k \in 1..Len(q.events) : q.events[k].ev = kind}

\* the data of the events of one kind, in order
RECURSIVE DataOf(_, _)
DataOf(events, kind) ==
    IF events = <<>> THEN <<>>
    ELSE IF Head(events).ev = kind THEN <<Head(events).data>> \o DataOf(Tail(events), kind)
    ELSE DataOf(Tail(events), kind)

\* C22: in a stream not served by the cache the intent event is first; the
\* debug-query events are, in order, the queries of the search calls made, one
\* per call, and the first of them follows the intent event directly; an item
\* event of a recommended identifier never precedes an item event of a
\* keyword-search candidate; no two item events carry the same full_name; and
\* done occurs at most once, as the last event, after every item event
C22_StreamEventOrder ==
    /\ [][\A r \in Slots :
            (rq[r].mode = "stream" /\ EventsOf(rq[r], "done") # {}) =>
                rq'[r].events = rq[r].events]_vars
    /\ [](\A r \in Slots :
        (rq[r].mode = "stream" /\ ~rq[r].hit /\ rq[r].events # <<>>) =>
            /\ rq[r].events[1].ev = "intent"
            /\ EventsOf(rq[r], "intent") = {1}
            /\ DataOf(rq[r].events, "debug-query")
                  = [k \in 1..rq[r].calls.search |-> rq[r].searched[k].github_query]
            /\ rq[r].calls.search >= 1 => rq[r].events[2].ev = "debug-query"
            /\ \A a, b \in EventsOf(rq[r], "item") :
                  a < b =>
                      /\ rq[r].events[a].data # rq[r].events[b].data
                      /\ ~(/\ rq[r].events[a].data \in Range(rq[r].fetched)
                           /\ rq[r].events[b].data \in Names(rq[r].repos))
            /\ \A k \in EventsOf(rq[r], "item") :
                  rq[r].events[k].data \in Names(rq[r].repos) \cup Range(rq[r].fetched)
            /\ \A d \in EventsOf(rq[r], "done") : d = Len(rq[r].events))

\* a finished stream with two keyword-search items, then a recommended one,
\* then done, after a narrowed search
C22_Witness ==
    /\ rq["r1"].mode = "stream" /\ Computed(rq["r1"])
    /\ rq["r1"].calls.search = 2
    /\ Len(ItemNames(rq["r1"].events)) = 3
    /\ ItemNames(rq["r1"].events)[1] \in Names(rq["r1"].repos)
    /\ ItemNames(rq["r1"].events)[2] \in Names(rq["r1"].repos)
    /\ ItemNames(rq["r1"].events)[3] \in Range(rq["r1"].fetched)
    /\ Last(rq["r1"].events).ev = "done"

\* C23: the count of the done event of a computed stream is the number of
\* finalized results, min(limit, enriched items), and the number of results
\* in the entry the request stored; in a replay from the cache the number of
\* item events equals the count of done
C23_DoneCount ==
    \A r \in Slots :
        (rq[r].mode = "stream" /\ Completed(rq[r])) =>
            /\ Last(rq[r].events).ev = "done"
            /\ Last(rq[r].events).count = Len(rq[r].results)
            /\ Last(rq[r].events).count = Len(rq[r].response[1].results)
            /\ ~rq[r].hit =>
                  /\ Last(rq[r].events).count = Min(rq[r].limit, Len(rq[r].enriched))
                  /\ (rq[r].use_cache /\ lastSet[rq[r].query][1].by = r) =>
                        Len(lastSet[rq[r].query][1].value.results)
                            = Last(rq[r].events).count
            /\ rq[r].hit =>
                  Cardinality(EventsOf(rq[r], "item")) = Last(rq[r].events).count

\* a stream that enriched three items under limit 1 and said done with count
\* 1, and a later stream that replayed its entry: one item, done with count 1
C23_Witness ==
    \E r \in Slots, w \in Slots :
        /\ rq[w].mode = "stream" /\ Computed(rq[w]) /\ rq[w].use_cache
        /\ Len(rq[w].enriched) = 3 /\ rq[w].limit = 1
        /\ Last(rq[w].events).count = 1
        /\ rq[r].mode = "stream" /\ rq[r].hit /\ rq[r].limit = MaxLimit
        /\ rq[r].response = rq[w].response
        /\ Cardinality(EventsOf(rq[r], "item")) = 1
        /\ Last(rq[r].events).count = 1

-----------------------------------------------------------------------------
(* SpecLive: one request whose collaborators always answer. Every await of
   the handlers is on a call that returns or raises, so a step of the request
   that is possible is eventually taken. *)

LiveIntentChats ==
    {ChatUnavailable,
     ChatIntent([keywords |-> <<"x", "y", "z">>, languages |-> <<>>, filters |-> <<>>])}

LiveSearchOutcomes == {SearchFailed, SearchOk(<<>>), SearchOk(<<RepoA, RepoBad>>)}

LiveRecChats ==
    {RecUnavailable, RecJson(<<"a/b", "e/f">>), RecJson(<<"x/bad", "e/f", "e/f">>)}

NextLive ==
    \/ \E body \in Bodies : StartBatch("r1", body)
    \/ \E params \in Params : StartStream("r1", params)
    \/ \E chat \in LiveIntentChats : ParseReturns("r1", chat)
    \/ \E out \in LiveSearchOutcomes : SearchReturns("r1", out)
    \/ \E out \in LiveSearchOutcomes : NarrowReturns("r1", out)
    \/ \E chat \in LiveRecChats : RecommendReturns("r1", chat)
    \/ \E chat \in ExplainChats : ExplainReturns("r1", chat)
    \/ \E detail \in PendingDetails("r1") : GetRepoReturns("r1", detail)

SpecLive == Init /\ [][NextLive]_vars /\ WF_vars(NextLive)

\* C24: a request that has started eventually ends, in completed or in
\* failed, and stays as it ended; it makes at most two search calls, one
\* recommendation call and one get_repository call per recommended
\* identifier; a completed stream has done as its last event; a failed stream
\* has an error event as its last event and no done
C24_Terminates ==
    /\ \A r \in Slots : (rq[r].pc # "idle") ~> Ended(rq[r])
    /\ [][\A r \in Slots : Ended(rq[r]) => rq'[r] = rq[r]]_vars
    /\ [](\A r \in Slots :
            /\ rq[r].calls.search <= 2
            /\ rq[r].calls.recommend <= 1
            /\ rq[r].calls.get_repository <= Cardinality(Range(rq[r].recs))
            /\ rq[r].calls.get_repository = Len(rq[r].fetched)
            /\ \A a, b \in 1..Len(rq[r].fetched) :
                  a # b => rq[r].fetched[a] # rq[r].fetched[b]
            /\ Range(rq[r].fetched) \subseteq Range(rq[r].recs)
            /\ (rq[r].mode = "stream" /\ rq[r].pc = "completed") =>
                  Last(rq[r].events).ev = "done"
            /\ (rq[r].mode = "stream" /\ rq[r].pc = "failed") =>
                  /\ Last(rq[r].events).ev = "error"
                  /\ EventsOf(rq[r], "done") = {})

\* a stream that searched twice, asked for one recommendation, fetched the two
\* recommended identifiers and ended with done
C24_Witness ==
    /\ rq["r1"].mode = "stream" /\ rq["r1"].pc = "completed"
    /\ rq["r1"].calls.search = 2 /\ rq["r1"].calls.recommend = 1
    /\ Cardinality(Range(rq["r1"].recs)) = 2 /\ rq["r1"].calls.get_repository = 2
    /\ Last(rq["r1"].events).ev = "done"

-----------------------------------------------------------------------------
(* Properties of the final order *)

\* the items of one score, in order
WithScore(items, s) == SelectSeq(items, LAMBDA x : x.score = s)

\* C25: the finalized results of one score are the first enriched items of
\* that score, in their enrichment order; so at equal score a result fetched
\* for a recommendation never precedes a keyword-search result
C25_StableSort ==
    \A r \in Slots :
        Computed(rq[r]) =>
            /\ \A k \in 1..Len(rq[r].results) :
                  WithScore(rq[r].results, rq[r].results[k].score)
                      = SubSeq(WithScore(rq[r].enriched, rq[r].results[k].score), 1,
                               Len(WithScore(rq[r].results, rq[r].results[k].score)))
            /\ \A a, b \in 1..Len(rq[r].results) :
                  (a < b /\ rq[r].results[a].score = rq[r].results[b].score) =>
                      ~(/\ rq[r].results[a].full_name \in Range(rq[r].fetched)
                        /\ rq[r].results[b].full_name \in Names(rq[r].repos))

\* two keyword-search items and a recommended one, all of one score, finalized
\* in the order search returned them, the recommended one last
C25_Witness ==
    /\ Computed(rq["r1"]) /\ rq["r1"].mode = "stream"
    /\ Len(rq["r1"].results) = 3
    /\ NameSeq(rq["r1"].repos) = <<"e/f", "c/d">>
    /\ rq["r1"].fetched = <<"a/b">>
    /\ \A k \in 1..3 : rq["r1"].results[k].score = rq["r1"].results[1].score
    /\ NameSeq(rq["r1"].results) = <<"e/f", "c/d", "a/b">>

-----------------------------------------------------------------------------
(* SpecKeywords: the start of a request, up to its first search call, on any
   query and any answer of the chat model to the intent parser *)

\* SearchRequest.query is any str; Query(..., min_length=1) is not empty
BatchQueries == IntentQueries \cup {""}
StreamQueries == IntentQueries

KeywordBodies == [query : BatchQueries, use_cache : {FALSE}, limit : {1}, opts : {BatchOpts}]
KeywordParams == [query : StreamQueries, use_cache : {FALSE}, limit : {1}, opts : {StreamOpts}]

NextKeywords ==
    \/ \E body \in KeywordBodies : StartBatch("r1", body)
    \/ \E params \in KeywordParams : StartStream("r1", params)
    \/ \E chat \in IntentAnswers : ParseReturns("r1", chat)

SpecKeywords == Init /\ [][NextKeywords]_vars

\* the positions of the first occurrence of every keyword, ignoring case
FirstSeen(keywords) ==
    {i \in 1..Len(keywords) :
        \A j \in 1..(i - 1) : Lower(keywords[j]) # Lower(keywords[i])}

\* the n-th keyword among the first occurrences
NthFirstSeen(keywords, n) ==
    keywords[CHOOSE i \in FirstSeen(keywords) :
                Cardinality({j \in FirstSeen(keywords) : j <= i}) = n]

\* C26: the keywords of the first search are not empty, at most 4, without
\* two entries equal ignoring case, and the first entries of the intent
\* keywords once deduplicated ignoring case in first-seen order
C26_SelectedKeywords ==
    \A r \in Slots :
        Len(rq[r].searched) >= 1 =>
            /\ rq[r].searched[1].keywords # <<>>
            /\ Len(rq[r].searched[1].keywords) <= 4
            /\ NoCaseDuplicate(rq[r].searched[1].keywords)
            /\ rq[r].keywords # <<>>
            /\ Len(rq[r].searched[1].keywords)
                  = Min(4, Cardinality(FirstSeen(rq[r].keywords)))
            /\ \A n \in 1..Len(rq[r].searched[1].keywords) :
                  rq[r].searched[1].keywords[n] = NthFirstSeen(rq[r].keywords, n)
            /\ rq[r].searched[1].keywords = rq[r].selected

\* seven intent keywords, of which the first four are searched
C26_Witness ==
    /\ rq["r1"].keywords = <<"k1", "k2", "k3", "k4", "k5", "k6", "k7">>
    /\ Len(rq["r1"].searched) = 1
    /\ rq["r1"].searched[1].keywords = <<"k1", "k2", "k3", "k4">>

-----------------------------------------------------------------------------
(* Properties of the scores of recommended repositories *)

\* the record get_repository answers for a name
CatalogueRecord(name) == CHOOSE c \in Catalogue : c.full_name = name

\* C27: a result fetched for a recommendation carries the score the same
\* record gets when the keyword search delivers it: compute_score of the full
\* record (stars, forks, open issues, updated_at, description, topics)
C27_ScoreSourceIndependent ==
    \A r \in Slots :
        \A k \in 1..Len(rq[r].enriched) :
            rq[r].enriched[k].full_name \in Range(rq[r].fetched) =>
                rq[r].enriched[k].score
                    = compute_score(CatalogueRecord(rq[r].enriched[k].full_name), now)

\* the same with the forks and the open issues left out of the record, as
\* lines 351-359 build it
C27_ScoreOfReducedRecord ==
    \A r \in Slots :
        \A k \in 1..Len(rq[r].enriched) :
            rq[r].enriched[k].full_name \in Range(rq[r].fetched) =>
                rq[r].enriched[k].score
                    = compute_score(
                          [f \in DOMAIN CatalogueRecord(rq[r].enriched[k].full_name)
                                \ {"forks_count", "open_issues_count"} |->
                              CatalogueRecord(rq[r].enriched[k].full_name)[f]], now)

-----------------------------------------------------------------------------
(* Properties of the responses delivered *)

\* C28: a response delivered to a caller, computed or served from the cache,
\* holds at most as many results as the limit of the request it answers
C28_AtMostLimit ==
    \A r \in Slots :
        Completed(rq[r]) => Len(rq[r].response[1].results) <= rq[r].limit

\* the same for the responses the pipeline computed
C28_ComputedAtMostLimit ==
    \A r \in Slots :
        Computed(rq[r]) => Len(rq[r].response[1].results) <= rq[r].limit

\* a batch and a stream request with the same query and limit whose intent
\* parser and searches answered the same
SameInputs(b, s) ==
    /\ rq[b].mode = "batch" /\ rq[s].mode = "stream"
    /\ Computed(rq[b]) /\ Computed(rq[s])
    /\ rq[b].query = rq[s].query /\ rq[b].limit = rq[s].limit
    /\ rq[b].keywords = rq[s].keywords
    /\ rq[b].first = rq[s].first /\ rq[b].second = rq[s].second

C29_EqualWithoutRecommendations ==
    \A b \in Slots, s \in Slots :
        (SameInputs(b, s) /\ rq[s].resolved = {}) => rq[b].response = rq[s].response

-----------------------------------------------------------------------------
(* Properties of the narrowed search *)

\* seq is the first entries of of
IsPrefix(seq, of) == Len(seq) <= Len(of) /\ seq = SubSeq(of, 1, Len(seq))

\* C30: the keywords of the narrowed search are the first entries of the
\* keywords of the first search and strictly fewer, and the query of the
\* narrowed search differs from the query of the first search
C30_RetryStrictlyNarrower ==
    \A r \in Slots :
        Len(rq[r].searched) = 2 =>
            /\ IsPrefix(rq[r].searched[2].keywords, rq[r].searched[1].keywords)
            /\ Len(rq[r].searched[2].keywords) < Len(rq[r].searched[1].keywords)
            /\ rq[r].searched[2].github_query # rq[r].searched[1].github_query

\* the same, strictly fewer only when the first search had more than two
\* keywords
C30_RetryIsPrefix ==
    \A r \in Slots :
        Len(rq[r].searched) = 2 =>
            /\ IsPrefix(rq[r].searched[2].keywords, rq[r].searched[1].keywords)
            /\ Len(rq[r].searched[1].keywords) > 2 =>
                  /\ Len(rq[r].searched[2].keywords) < Len(rq[r].searched[1].keywords)
                  /\ rq[r].searched[2].github_query # rq[r].searched[1].github_query
            /\ Len(rq[r].searched[1].keywords) = 2 =>
                  rq[r].searched[2] = rq[r].searched[1]

====
